---- MODULE Spec2Model ----
(***************************************************************************)
(* GeoGlim backend: the clip-and-serve pipeline of backend/main.py,        *)
(* backend/services/clip_service.py, backend/utils/validation.py and       *)
(* backend/config.py, as a state machine.                                  *)
(*                                                                         *)
(* Geometry is modelled on a line of unit cells: a geometry is a set of    *)
(* cell numbers, intersection is set intersection.  The two coordinate     *)
(* reference systems number the same cells differently, so reprojection    *)
(* is a real change of coordinates.                                        *)
(***************************************************************************)
EXTENDS Integers, Sequences, FiniteSets, TLC

VARIABLES
    fs,             \* the file system: state of each dataset's backing file
    dataset_cache,  \* ClipService._dataset_cache
    req,            \* the request handlers in flight, one per slot
    running,        \* the slot whose handler the event loop is executing, 0 if none
    storageReads,   \* per dataset: gpd.read_file calls on its backing file so far
    nLoaded,        \* per dataset: full loads that returned a collection so far
    clipReturned,   \* per dataset: whether some clip_data call has returned normally
    tmpfiles        \* number of files _save_result has left in the temporary directory

vars == <<fs, dataset_cache, req, running, storageReads, nLoaded, clipReturned,
          tmpfiles>>

----------------------------------------------------------------------------
(* Bounds of the model *)

\* storage reads (full loads and sample reads) modelled per dataset
MaxReads == 2

\* temporary files modelled
MaxTmp == 2

\* request slots (handlers in flight at once)
Slots == {1, 2}

----------------------------------------------------------------------------
(* backend/models.py, backend/config.py *)

DatasetType == {"glim", "glhymps"}

OutputFormat == {"geojson", "shapefile", "gpkg"}

MAX_FILE_SIZE == 50 * 1024 * 1024

\* A backing file is absent, present but unreadable by the GIS engine, readable
\* with the dataset's features, or readable with no feature in it.
FileStates == {"missing", "corrupt", "ok", "empty"}

\* dataset.value: the string of an enum member, as a sequence of characters.
DatasetValue(dataset) ==
    IF dataset = "glim" THEN <<"g", "l", "i", "m">>
    ELSE <<"g", "l", "h", "y", "m", "p", "s">>

GLIM_PATH == "data/LiMW_GIS_2015.gdb/LiMW_GIS 2015.gdb"
GLHYMPS_PATH == "data/GLHYMPS/GLHYMPS.shp"

UpperCase == <<"A", "B", "C", "D", "E", "F", "G", "H", "I", "J", "K", "L", "M",
               "N", "O", "P", "Q", "R", "S", "T", "U", "V", "W", "X", "Y", "Z">>
LowerCase == <<"a", "b", "c", "d", "e", "f", "g", "h", "i", "j", "k", "l", "m",
               "n", "o", "p", "q", "r", "s", "t", "u", "v", "w", "x", "y", "z">>

\* The other printable ASCII characters; str.lower() leaves them as they are.
\* The quotation mark, the backslash and the grave accent are written as
\* their code points.
UncasedASCII ==
    {" ", "!", "U+0022", "#", "$", "%", "&", "'", "(", ")", "*", "+", ",", "-", ".",
     "/", "0", "1", "2", "3", "4", "5", "6", "7", "8", "9", ":", ";", "<", "=",
     ">", "?", "@", "[", "U+005C", "]", "^", "_", "U+0060", "{", "|", "}", "~"}

\* Characters outside ASCII, each written as its code point: E with acute
\* (capital and small), capital I with dot above, the combining dot above,
\* the Kelvin sign, sharp s and dotless i.
E_ACUTE_CAPITAL == "U+00C9"
E_ACUTE_SMALL == "U+00E9"
I_DOT_CAPITAL == "U+0130"
COMBINING_DOT_ABOVE == "U+0307"
KELVIN_SIGN == "U+212A"
SHARP_S == "U+00DF"
DOTLESS_I == "U+0131"

\* The characters of the names the model speaks of: printable ASCII and the
\* code points above.
Alphabet ==
    {UpperCase[k] : k \in 1..26} \cup {LowerCase[k] : k \in 1..26} \cup UncasedASCII
        \cup {E_ACUTE_CAPITAL, E_ACUTE_SMALL, I_DOT_CAPITAL, COMBINING_DOT_ABOVE,
              KELVIN_SIGN, SHARP_S, DOTLESS_I}

\* str.lower() of one character of Alphabet: the characters it becomes.  A
\* cased character outside ASCII has its own lower case, which can be an ASCII
\* letter (the Kelvin sign) or two characters (capital I with dot above).
LowerChar(c) ==
    CASE \E k \in 1..26 : UpperCase[k] = c ->
             <<LowerCase[CHOOSE k \in 1..26 : UpperCase[k] = c]>>
      [] c = E_ACUTE_CAPITAL -> <<E_ACUTE_SMALL>>
      [] c = I_DOT_CAPITAL   -> <<"i", COMBINING_DOT_ABOVE>>
      [] c = KELVIN_SIGN     -> <<"k">>
      [] c \in Alphabet \ ({UpperCase[k] : k \in 1..26}
                              \cup {E_ACUTE_CAPITAL, I_DOT_CAPITAL, KELVIN_SIGN}) -> <<c>>

\* str.lower(), on a name given as its sequence of characters of Alphabet
RECURSIVE lower(_)
lower(name) ==
    IF name = << >> THEN << >> ELSE LowerChar(Head(name)) \o lower(Tail(name))

\* get_data_path: paths.get(dataset_name.lower()), the two configured local
\* paths; None for any other name.
get_data_path(dataset_name) ==
    LET key == lower(dataset_name) IN
    CASE key = DatasetValue("glim")    -> GLIM_PATH
      [] key = DatasetValue("glhymps") -> GLHYMPS_PATH
      [] OTHER                         -> "None"

\* The dataset whose backing file a configured path names.
FileAt(path) == IF path = GLIM_PATH THEN "glim" ELSE "glhymps"

\* path.exists(), against the file system f
exists(f, path) == f[FileAt(path)] # "missing"

\* Variant: only the configured path is tested, not the file's existence.
is_dataset_available_no_exists(f, dataset_name) ==
    get_data_path(dataset_name) # "None"

\* is_dataset_available: path and path.exists(), against the file system f.
is_dataset_available(f, dataset_name) ==
    LET path == get_data_path(dataset_name) IN
    path # "None" /\ exists(f, path)

----------------------------------------------------------------------------
(* Geometry and coordinate reference systems (the external GIS engine) *)

WGS84 == "EPSG:4326"
EqualArea == "ESRI:54034"
EckertIV == "ESRI:54012"
WebMercator == "EPSG:3857"

\* A geometry is drawn on a line of unit cells: cell c is the closed stretch
\* from coordinate c to coordinate c + 1, so two neighbouring cells share
\* their common end point.  geom is the set of cells a feature covers (its
\* polygons), points the isolated points it consists of besides.
Geometry(cells, points) == [geom |-> cells, points |-> points]

\* A table column: its name is a sequence of parts (a suffix is one more
\* part), its value the cell of one row.
Column(name, value) == [name |-> <<name>>, value |-> value]

Feature(cells, points, valid, attrs) ==
    [geom |-> cells, points |-> points, valid |-> valid, attrs |-> attrs]

\* Where each reference system puts the coordinate that WGS84 calls 0.
Origin(crs) ==
    CASE crs = WGS84       -> 0
      [] crs = EqualArea   -> 10
      [] crs = EckertIV    -> 20
      [] crs = WebMercator -> 30

\* Coordinates of one cell or point in another reference system.
ProjectCell(c, from, to) == c - Origin(from) + Origin(to)

\* GeoDataFrame.to_crs: every geometry re-expressed in the target system.
to_crs(gdf, crs) ==
    [crs |-> crs,
     features |-> [i \in 1..Len(gdf.features) |->
        [gdf.features[i] EXCEPT
            !.geom   = {ProjectCell(c, gdf.crs, crs) : c \in gdf.features[i].geom},
            !.points = {ProjectCell(c, gdf.crs, crs) : c \in gdf.features[i].points}]]]

\* The content of each dataset's backing file when it is readable: three
\* polygon features for glim, six for glhymps (more than a sample read
\* returns), one attribute column of the dataset, stored in the dataset's
\* own CRS (World Eckert IV for GLiM, test_glim_only.py 42; World Cylindrical
\* Equal Area for GLHYMPS).
DatasetFile(dataset) ==
    IF dataset = "glim"
    THEN [crs |-> EckertIV,
          features |-> << Feature({21},     {}, TRUE, << Column("Litho", "a") >>),
                          Feature({22, 23}, {}, TRUE, << Column("Litho", "b") >>),
                          Feature({24},     {}, TRUE, << Column("Litho", "c") >>) >>]
    ELSE [crs |-> EqualArea,
          features |-> << Feature({11},     {}, TRUE, << Column("Porosity", "a") >>),
                          Feature({12, 13}, {}, TRUE, << Column("Porosity", "b") >>),
                          Feature({14},     {}, TRUE, << Column("Porosity", "c") >>),
                          Feature({16},     {}, TRUE, << Column("Porosity", "d") >>),
                          Feature({17},     {}, TRUE, << Column("Porosity", "e") >>),
                          Feature({18},     {}, TRUE, << Column("Porosity", "f") >>) >>]

----------------------------------------------------------------------------
(* Uploaded payloads.  A payload is described by what the validator's steps *)
(* see of it: its byte length, whether it decodes as UTF-8, what json.loads *)
(* makes of it, whether the parsed object has a "type" member, whether the  *)
(* GIS engine can read it, the features it carries and the CRS it declares. *)

NoCRS == "None"

\* One AOI feature with the property "name": a box over the given cells, a
\* self-intersecting ring, a single point.
Box(cells, name) == Feature(cells, {}, TRUE, << Column("name", name) >>)
BowTie(cells, name) == Feature(cells, {}, FALSE, << Column("name", name) >>)
PointAt(p, name) == Feature({}, {p}, TRUE, << Column("name", name) >>)
\* A box whose one property carries the name of a dataset column.
LithoBox(cells, value) == Feature(cells, {}, TRUE, << Column("Litho", value) >>)

GoodPayload(n, crs, feats) ==
    [len |-> n, utf8 |-> TRUE, json |-> "object", hasType |-> TRUE,
     readable |-> TRUE, crs |-> crs, features |-> feats]

P_valid_nocrs   == GoodPayload(300, NoCRS, << Box({1, 2}, "box") >>)
P_valid_wgs84   == GoodPayload(MAX_FILE_SIZE, WGS84, << Box({1, 2}, "box") >>)
P_valid_eqarea  == GoodPayload(300, EqualArea, << Box({11, 12}, "box") >>)
P_valid_eckert  == GoodPayload(300, EckertIV, << Box({21, 22}, "box") >>)
\* an AOI away from every feature of both datasets
P_valid_far     == GoodPayload(300, WGS84, << Box({30}, "far") >>)
\* an AOI that shares one boundary point with a dataset feature and no area
P_valid_touching == GoodPayload(300, WGS84, << Box({5}, "edge") >>)
\* two AOI features, the second in two parts, both cutting the dataset's
\* first and second feature; their property has the name of a glim column
P_two_boxes     == GoodPayload(300, WGS84, << LithoBox({1, 2}, "x"), LithoBox({1, 3}, "y") >>)
\* an AOI that is a point inside the dataset's extent
P_point         == GoodPayload(300, WGS84, << PointAt(2, "pt") >>)
P_oversize      == GoodPayload(MAX_FILE_SIZE + 1, NoCRS, << Box({1, 2}, "box") >>)
P_not_utf8      == [P_valid_nocrs EXCEPT !.utf8 = FALSE, !.json = "invalid",
                        !.hasType = FALSE, !.readable = FALSE, !.features = << >>]
P_not_json      == [P_valid_nocrs EXCEPT !.json = "invalid",
                        !.hasType = FALSE, !.readable = FALSE, !.features = << >>]
P_too_deep      == [P_valid_nocrs EXCEPT !.json = "recursion",
                        !.hasType = FALSE, !.readable = FALSE, !.features = << >>]
\* a FeatureCollection that is valid in everything but an integer literal of
\* more digits than the interpreter converts
P_long_integer  == [P_valid_nocrs EXCEPT !.json = "int_limit"]
P_json_array    == [P_valid_nocrs EXCEPT !.json = "array",
                        !.hasType = FALSE, !.readable = FALSE, !.features = << >>]
P_no_type       == [P_valid_nocrs EXCEPT !.hasType = FALSE,
                        !.readable = FALSE, !.features = << >>]
P_unreadable    == [P_valid_nocrs EXCEPT !.readable = FALSE, !.features = << >>]
P_no_features   == [P_valid_nocrs EXCEPT !.features = << >>]
P_invalid_geom  == [P_valid_nocrs EXCEPT
                        !.features = << Box({1}, "ok"), BowTie({2}, "bowtie") >>]

InvalidPayloads ==
    {P_not_utf8, P_not_json, P_too_deep, P_long_integer, P_json_array, P_no_type, P_unreadable,
     P_no_features, P_invalid_geom}

ValidPayloads == {P_valid_nocrs, P_valid_wgs84, P_valid_eqarea, P_valid_eckert, P_valid_far}

Payloads == ValidPayloads \cup InvalidPayloads \cup {P_oversize}

----------------------------------------------------------------------------
(* Exceptions and responses *)

NoGdf == [crs |-> NoCRS, features |-> << >>]

NoExc == [type |-> "none", status |-> 0, detail |-> << >>]

\* fastapi.HTTPException(status_code, detail)
HTTPException(status_code, detail) ==
    [type |-> "HTTPException", status |-> status_code, detail |-> detail]

\* any other exception; detail is its message
Raised(type, message) == [type |-> type, status |-> 0, detail |-> message]

StatusText(status) ==
    CASE status = 400 -> "400: "
      [] status = 404 -> "404: "
      [] status = 413 -> "413: "
      [] OTHER        -> "500: "

\* str(e): an HTTPException prints as "<status_code>: <detail>", any other
\* exception as its message.
Str(e) ==
    IF e.type = "HTTPException" THEN <<StatusText(e.status)>> \o e.detail
    ELSE e.detail

NoResp == [status |-> 0, detail |-> << >>, filename |-> << >>,
           feature_count |-> -1, path |-> << >>, body |-> << >>]

ErrorResponse(status, detail) ==
    [NoResp EXCEPT !.status = status, !.detail = detail]

\* What FastAPI answers for an HTTPException that leaves a handler.
HTTPErrorResponse(e) == ErrorResponse(e.status, e.detail)

----------------------------------------------------------------------------
(* backend/utils/validation.py *)

ValidationError(message) ==
    HTTPException(400, <<"Invalid GeoJSON file: ">> \o message)

\* Variant: the except clause returns instead of raising.
RejectedSwallowed(e, steps) ==
    [raised |-> FALSE, exc |-> NoExc, gdf |-> NoGdf, steps |-> steps]

Validated(gdf, steps) == [raised |-> FALSE, exc |-> NoExc, gdf |-> gdf, steps |-> steps]
Rejected(e, steps)    == [raised |-> TRUE,  exc |-> e, gdf |-> NoGdf, steps |-> steps]

\* Variant: the payload's CRS is returned as declared, a missing one included.
DefaultCRSKeepsNone(crs) == crs

\* if gdf.crs is None: gdf = gdf.set_crs("EPSG:4326")
DefaultCRS(crs) == IF crs = NoCRS THEN WGS84 ELSE crs

\* validate_geojson_file(contents).  steps lists the operations performed on
\* the payload, in order.  json.loads raises JSONDecodeError ("invalid"),
\* raises RecursionError on nesting beyond the interpreter's limit
\* ("recursion"), raises ValueError on an integer literal of more digits than
\* the interpreter converts ("int_limit"), or returns a value.  Only the
\* JSONDecodeError has its own except clause; the other two are caught by the
\* blanket one.
validate_geojson_file(contents) ==
    IF ~contents.utf8
    THEN Rejected(ValidationError(<<"'utf-8' codec can't decode">>), <<"decode">>)
    ELSE IF contents.json = "invalid"
    THEN Rejected(HTTPException(400, <<"Invalid JSON format: ", "Expecting value">>),
                  <<"decode", "json.loads">>)
    ELSE IF contents.json = "recursion"
    THEN Rejected(ValidationError(<<"maximum recursion depth exceeded">>),
                  <<"decode", "json.loads">>)
    ELSE IF contents.json = "int_limit"
    THEN Rejected(ValidationError(
                      <<"Exceeds the limit (4300 digits) for integer string conversion">>),
                  <<"decode", "json.loads">>)
    ELSE IF contents.json # "object"
    THEN Rejected(ValidationError(<<"GeoJSON must be a JSON object">>),
                  <<"decode", "json.loads">>)
    ELSE IF ~contents.hasType
    THEN Rejected(ValidationError(<<"GeoJSON must have a 'type' field">>),
                  <<"decode", "json.loads">>)
    ELSE IF ~contents.readable
    THEN Rejected(ValidationError(<<"<driver error>">>),
                  <<"decode", "json.loads", "read_file">>)
    ELSE IF contents.features = << >>
    THEN Rejected(ValidationError(<<"GeoJSON contains no features">>),
                  <<"decode", "json.loads", "read_file", "empty">>)
    ELSE IF \E i \in 1..Len(contents.features) : ~contents.features[i].valid
    THEN Rejected(ValidationError(<<"GeoJSON contains invalid geometries">>),
                  <<"decode", "json.loads", "read_file", "empty", "is_valid">>)
    ELSE Validated([crs |-> DefaultCRS(contents.crs),
                    features |-> contents.features],
                   <<"decode", "json.loads", "read_file", "empty", "is_valid">>)

----------------------------------------------------------------------------
(* backend/services/clip_service.py: the pure parts of ClipService *)

NoEntry == [id |-> 0, crs |-> NoCRS, features |-> << >>]

\* Variant: the membership test never finds the entry.
CacheAlwaysMiss(cache, dataset) == TRUE

\* dataset not in self._dataset_cache
CacheMiss(cache, dataset) == cache[dataset] = NoEntry

\* if aoi.crs != full_data.crs: aoi = aoi.to_crs(full_data.crs)
NeedsReprojection(aoi, full_data) == aoi.crs # full_data.crs

\* Variant: the AOI is handed to the overlay in its own CRS.
ReprojectAOINever(aoi, full_data) == aoi

ReprojectAOI(aoi, full_data) ==
    IF NeedsReprojection(aoi, full_data) THEN to_crs(aoi, full_data.crs) ELSE aoi

\* Every coordinate a geometry contains: its cells with both their end
\* points, and its isolated points.
Covered(g) == g.geom \cup {c + 1 : c \in g.geom} \cup g.points

\* GeoSeries.intersection of two geometries: the cells both cover, and the
\* points both contain that lie on none of those cells.
intersection(a, b) ==
    LET cells == a.geom \cap b.geom
    IN  Geometry(cells, (Covered(a) \cap Covered(b)) \ Covered(Geometry(cells, {})))

is_empty(g) == g.geom = {} /\ g.points = {}

\* GeoSeries.geom_type, for geometries of one kind.
geom_type(g) == IF g.geom # {} THEN "Polygon" ELSE "Point"

\* The part of a geometry that has the given type.
PartOfType(g, type) ==
    IF type = "Polygon" THEN Geometry(g.geom, {}) ELSE Geometry({}, g.points)

ColumnNames(attrs) == {attrs[i].name : i \in 1..Len(attrs)}

\* The columns of one side of a merge: a name the other side has too gets
\* the side's suffix.
Suffixed(attrs, other, suffix) ==
    [i \in 1..Len(attrs) |->
        IF attrs[i].name \in ColumnNames(other)
        THEN [attrs[i] EXCEPT !.name = @ \o <<suffix>>]
        ELSE attrs[i]]

\* DataFrame.merge(..., suffixes=("_1", "_2")): the columns of the first
\* row, then those of the second.
MergeColumns(attrs1, attrs2) ==
    Suffixed(attrs1, attrs2, "_1") \o Suffixed(attrs2, attrs1, "_2")

\* gpd.overlay(df1, df2, how="intersection") with its defaults, for frames
\* of one geometry type each: the pairs of a df1 row and a df2 row that
\* intersect, in (df1, df2) row order, each with the intersection as
\* geometry and the columns of both rows; keep_geom_type then keeps of every
\* intersection only the part of df1's geometry type and drops the rows that
\* have none (two polygons that share only boundary points, a polygon and a
\* point).
overlay(df1, df2) ==
    LET n == Len(df1.features)
        m == Len(df2.features)
        pair(k) == <<((k - 1) \div m) + 1, ((k - 1) % m) + 1>>
        row(k) ==
            LET f1 == df1.features[pair(k)[1]]
                f2 == df2.features[pair(k)[2]]
                g  == intersection(f1, f2)
            IN  Feature(g.geom, g.points, TRUE, MergeColumns(f1.attrs, f2.attrs))
        intersecting == SelectSeq([k \in 1..(n * m) |-> row(k)],
                                  LAMBDA f : ~is_empty(f))
        type == geom_type(df1.features[1])
        kept(f) == LET g == PartOfType(f, type)
                   IN  [f EXCEPT !.geom = g.geom, !.points = g.points]
    IN  [crs |-> df1.crs,
         features |-> SelectSeq([k \in 1..Len(intersecting) |-> kept(intersecting[k])],
                                LAMBDA f : ~is_empty(f))]

\* Variant: a spatial selection; the dataset features that the overlay cuts
\* are returned whole.
clip_overlay_selects(full_data, aoi) ==
    LET clipped == overlay(full_data, aoi)
        whole(f) == CHOOSE d \in {full_data.features[i] : i \in 1..Len(full_data.features)} :
                        f.geom \subseteq d.geom
    IN  [clipped EXCEPT !.features =
            [k \in 1..Len(clipped.features) |->
                [clipped.features[k] EXCEPT !.geom = whole(clipped.features[k]).geom]]]

\* clip_service.py 51: clipped = gpd.overlay(full_data, aoi, how="intersection")
clip_overlay(full_data, aoi) == overlay(full_data, aoi)

\* format_config of _save_result
format_config(format) ==
    CASE format = "geojson"   -> [suffix |-> ".geojson", driver |-> "GeoJSON"]
      [] format = "shapefile" -> [suffix |-> ".shp",     driver |-> "ESRI Shapefile"]
      [] format = "gpkg"      -> [suffix |-> ".gpkg",    driver |-> "GPKG"]

NoFile == [path |-> << >>, driver |-> "", written |-> -1]

\* tempfile.NamedTemporaryFile(suffix=config["suffix"], delete=False): a new
\* file, named apart from every earlier one by its serial.
NamedTemporaryFile(serial, suffix) ==
    [path |-> <<"tmp", serial, suffix>>, driver |-> "", written |-> -1]

\* _save_result: the temporary file after gdf.to_file(temp_file.name, driver);
\* its path is what _save_result returns.
save_result(gdf, format, serial) ==
    [NamedTemporaryFile(serial, format_config(format).suffix) EXCEPT
        !.driver = format_config(format).driver,
        !.written = Len(gdf.features)]

----------------------------------------------------------------------------
(* backend/main.py: the clip handler's pure parts *)

\* Variant: the limit written with a digit too many (500MB).
TooLargeWrongLimit(contents) == contents.len > 500 * 1024 * 1024

\* len(contents) > MAX_FILE_SIZE
TooLarge(contents) == contents.len > MAX_FILE_SIZE

DatasetNotFound(dataset) ==
    HTTPException(404, <<"Dataset ", dataset, " not found in local storage. ",
                         "Please ensure files are in backend/data/ folder.">>)

FileTooLarge == HTTPException(413, <<"File too large. Max size: ", "50.0", "MB">>)

\* Variant: the underlying message is dropped from the detail.
ClipExceptNoMessage(e) == HTTPException(500, <<"Clipping failed">>)

\* except Exception as e: raise HTTPException(500, f"Clipping failed: {str(e)}")
\* HTTPException is an Exception, so the ones raised in the try block are
\* caught here as well.
ClipExcept(e) == HTTPException(500, <<"Clipping failed: ">> \o Str(e))

\* f"{dataset.value}_clipped.{output_format.value}"
ClipFilename(dataset, output_format) == <<dataset, "_clipped.", output_format>>

\* Variant: the X-Feature-Count header is not set.
ClipSuccessNoCount(dataset, output_format, result_gdf, temp_file_path) ==
    [NoResp EXCEPT !.status = 200,
                   !.filename = ClipFilename(dataset, output_format),
                   !.path = temp_file_path]

\* FileResponse(path, filename, headers={"X-Feature-Count": str(len(result_gdf))})
ClipSuccess(dataset, output_format, result_gdf, temp_file_path) ==
    [NoResp EXCEPT !.status = 200,
                   !.filename = ClipFilename(dataset, output_format),
                   !.feature_count = Len(result_gdf.features),
                   !.path = temp_file_path]

\* Variant: the dataset load is awaited (offloaded), so the loop is released
\* between the cache lookup and the insertion.
SuspendsWhileLoading(pc) == pc \in {"read", "loading"}

\* The await points of clip_dataset: only `await geojson_file.read()`, reached
\* before position "read".  Everywhere else the handler keeps the event loop.
Suspends(pc) == pc = "read"

----------------------------------------------------------------------------
(* State *)

NoPayload == [len |-> 0, utf8 |-> FALSE, json |-> "none", hasType |-> FALSE,
              readable |-> FALSE, crs |-> NoCRS, features |-> << >>]

\* A free slot.  kind is "clip", "info" or "health" for a request; pc is the
\* handler's position; contents, aoi, full_data and result are the handler's
\* local variables; trace lists the calls the handler has made so far, steps
\* the operations the validator performed; failedAt names the stage that raised;
\* overlapped records that another clip request for the same dataset was in
\* flight with this one while the dataset was not cached; cache0 is the cache
\* as it was when the request arrived; file is the temporary file the request
\* created; datasets_status is the dictionary health_check fills.
NoRequest ==
    [kind |-> "none", pc |-> "idle", dataset |-> "", format |-> "",
     contents |-> NoPayload, aoi |-> NoGdf, full_data |-> NoEntry,
     result |-> NoGdf, resp |-> NoResp, trace |-> << >>, steps |-> << >>,
     failedAt |-> "", overlapped |-> FALSE,
     cache0 |-> [d \in DatasetType |-> NoEntry], file |-> NoFile,
     datasets_status |-> [d \in DatasetType |-> FALSE]]

Init ==
    /\ fs \in [DatasetType -> FileStates]
    /\ dataset_cache = [d \in DatasetType |-> NoEntry]
    /\ req = [r \in Slots |-> NoRequest]
    /\ running = 0
    /\ storageReads = [d \in DatasetType |-> 0]
    /\ nLoaded = [d \in DatasetType |-> 0]
    /\ clipReturned = [d \in DatasetType |-> FALSE]
    /\ tmpfiles = 0

\* The event loop runs one handler at a time: a handler that holds the loop
\* continues; when no handler holds it, any handler at its start or at an
\* await point may be resumed.
CanRun(r) ==
    \/ running = r
    \/ running = 0 /\ (req[r].pc = "start" \/ Suspends(req[r].pc))

\* A clip request that has arrived and not yet been answered.
InFlight(r) == req[r].kind = "clip" /\ req[r].pc # "done"

Yield(r, pc) == IF pc = "done" \/ Suspends(pc) THEN 0 ELSE r

\* The handler of slot r ends with exception e raised inside the try block.
ClipRaise(r, e, stage, tr) ==
    /\ req' = [req EXCEPT ![r] =
                  [@ EXCEPT !.pc = "done", !.trace = tr, !.failedAt = stage,
                            !.resp = HTTPErrorResponse(ClipExcept(e))]]
    /\ running' = 0

----------------------------------------------------------------------------
(* The environment: files appear, disappear, get damaged or repaired *)

FsChange(d, s) ==
    /\ fs[d] # s
    /\ fs' = [fs EXCEPT ![d] = s]
    /\ UNCHANGED <<dataset_cache, req, running, storageReads, nLoaded, clipReturned, tmpfiles>>

----------------------------------------------------------------------------
(* POST /clip/{dataset}: main.py clip_dataset, clip_service.py clip_data *)

\* A request arrives; FastAPI has bound dataset and output_format to their enums.
ClipRequest(r, dataset, output_format, payload) ==
    /\ req[r].pc = "idle"
    /\ LET peers == {o \in Slots \ {r} : InFlight(o) /\ req[o].dataset = dataset
                                            /\ CacheMiss(dataset_cache, dataset)}
       IN  req' = [o \in Slots |->
                    IF o = r
                    THEN [NoRequest EXCEPT !.kind = "clip", !.pc = "start",
                                           !.dataset = dataset, !.format = output_format,
                                           !.contents = payload,
                                           !.cache0 = dataset_cache,
                                           !.overlapped = peers # {}]
                    ELSE IF o \in peers THEN [req[o] EXCEPT !.overlapped = TRUE]
                    ELSE req[o]]
    /\ UNCHANGED <<fs, dataset_cache, running, storageReads, nLoaded, clipReturned, tmpfiles>>

\* main.py 70-81: the availability gate, then await geojson_file.read()
ClipCheckAvailable(r) ==
    /\ req[r].kind = "clip" /\ req[r].pc = "start" /\ CanRun(r)
    /\ LET tr == Append(req[r].trace, "is_dataset_available") IN
       IF ~is_dataset_available(fs, DatasetValue(req[r].dataset))
       THEN ClipRaise(r, DatasetNotFound(req[r].dataset), "available", tr)
       ELSE /\ req' = [req EXCEPT ![r] = [@ EXCEPT !.pc = "read", !.trace = tr]]
            /\ running' = Yield(r, "read")
    /\ UNCHANGED <<fs, dataset_cache, storageReads, nLoaded, clipReturned, tmpfiles>>

\* main.py 81-93: the size check, the validator, the call of clip_data
ClipValidate(r) ==
    /\ req[r].kind = "clip" /\ req[r].pc = "read" /\ CanRun(r)
    /\ LET tr == Append(req[r].trace, "read")
           v  == validate_geojson_file(req[r].contents)
       IN  IF TooLarge(req[r].contents)
           THEN ClipRaise(r, FileTooLarge, "size", tr)
           ELSE IF v.raised
           THEN /\ req' = [req EXCEPT ![r] =
                              [@ EXCEPT !.pc = "done", !.failedAt = "validation",
                                        !.trace = Append(tr, "validate_geojson_file"),
                                        !.steps = v.steps,
                                        !.resp = HTTPErrorResponse(ClipExcept(v.exc))]]
                /\ running' = 0
           ELSE /\ req' = [req EXCEPT ![r] =
                              [@ EXCEPT !.pc = "clip_data", !.aoi = v.gdf,
                                        !.steps = v.steps,
                                        !.trace = tr \o <<"validate_geojson_file",
                                                          "clip_data">>]]
                /\ running' = Yield(r, "clip_data")
    /\ UNCHANGED <<fs, dataset_cache, storageReads, nLoaded, clipReturned, tmpfiles>>

\* clip_service.py 26-42: the cache lookup; on a miss gpd.read_file is called
ClipCacheLookup(r) ==
    /\ req[r].kind = "clip" /\ req[r].pc = "clip_data" /\ CanRun(r)
    /\ LET d == req[r].dataset IN
       IF CacheMiss(dataset_cache, d)
       THEN /\ storageReads[d] < MaxReads
            /\ storageReads' = [storageReads EXCEPT ![d] = @ + 1]
            /\ req' = [req EXCEPT ![r] =
                          [@ EXCEPT !.pc = "loading",
                                    !.trace = @ \o <<"cache_miss", "read_file">>]]
            /\ running' = Yield(r, "loading")
       ELSE /\ req' = [req EXCEPT ![r] =
                          [@ EXCEPT !.pc = "overlay", !.full_data = dataset_cache[d],
                                    !.trace = Append(@, "cache_hit")]]
            /\ running' = Yield(r, "overlay")
            /\ UNCHANGED storageReads
    /\ UNCHANGED <<fs, dataset_cache, nLoaded, clipReturned, tmpfiles>>

\* What a readable backing file holds.
FileContent(f, dataset) ==
    IF f[dataset] = "empty"
    THEN [DatasetFile(dataset) EXCEPT !.features = << >>]
    ELSE DatasetFile(dataset)

\* gpd.read_file(str(dataset_path), ...) on the file system f: the content of
\* a readable file as a new collection (its id tells loads apart), otherwise
\* the driver's exception.
read_file(f, dataset, id) ==
    IF f[dataset] \in {"ok", "empty"}
    THEN [raised |-> FALSE, exc |-> NoExc,
          data |-> [id |-> id, crs |-> FileContent(f, dataset).crs,
                    features |-> FileContent(f, dataset).features]]
    ELSE [raised |-> TRUE, exc |-> Raised("DriverError", <<"<read error>">>),
          data |-> NoEntry]

\* Variant: the loaded collection is never stored.
CacheAfterLoadForgets(cache, dataset, loaded) == cache

\* Variant: the assignment also runs when read_file raised (negative caching).
CacheAfterLoadPoisons(cache, dataset, loaded) ==
    [cache EXCEPT ![dataset] = [loaded.data EXCEPT !.id = -1]]

\* self._dataset_cache[dataset] = full_data, reached only if read_file returned
CacheAfterLoad(cache, dataset, loaded) ==
    IF loaded.raised THEN cache ELSE [cache EXCEPT ![dataset] = loaded.data]

\* clip_service.py 30-39: gpd.read_file returns or raises; the insertion
ClipLoad(r) ==
    /\ req[r].kind = "clip" /\ req[r].pc = "loading" /\ CanRun(r)
    /\ LET d      == req[r].dataset
           loaded == read_file(fs, d, nLoaded[d] + 1)
       IN  /\ dataset_cache' = CacheAfterLoad(dataset_cache, d, loaded)
           /\ IF loaded.raised
              THEN /\ ClipRaise(r, loaded.exc, "load", req[r].trace)
                   /\ UNCHANGED nLoaded
              ELSE /\ nLoaded' = [nLoaded EXCEPT ![d] = @ + 1]
                   /\ req' = [req EXCEPT ![r] =
                                 [@ EXCEPT !.pc = "overlay", !.full_data = loaded.data,
                                           !.trace = Append(@, "cache_insert")]]
                   /\ running' = Yield(r, "overlay")
    /\ UNCHANGED <<fs, storageReads, clipReturned, tmpfiles>>

\* clip_service.py 44-57 and main.py 99-108: reprojection, overlay, the
\* temporary file, the response.  fault is what the GIS engine does.  The
\* temporary file exists from NamedTemporaryFile on, so also when to_file raises.
ClipOverlay(r, fault) ==
    /\ req[r].kind = "clip" /\ req[r].pc = "overlay" /\ CanRun(r)
    /\ LET q        == req[r]
           reproj   == NeedsReprojection(q.aoi, q.full_data)
           tr1      == IF reproj THEN Append(q.trace, "to_crs") ELSE q.trace
           aoi      == ReprojectAOI(q.aoi, q.full_data)
           clipped  == clip_overlay(q.full_data, aoi)
           suffix   == format_config(q.format).suffix
           file     == save_result(clipped, q.format, tmpfiles + 1)
       IN  CASE fault = "reproject" ->
                  /\ reproj
                  /\ ClipRaise(r, Raised("CRSError", <<"<reprojection error>">>),
                               "reproject", tr1)
                  /\ UNCHANGED tmpfiles
             [] fault = "overlay" ->
                  /\ ClipRaise(r, Raised("GEOSException", <<"<overlay error>">>),
                               "overlay", Append(tr1, "overlay"))
                  /\ UNCHANGED tmpfiles
             [] fault = "write" ->
                  /\ tmpfiles < MaxTmp
                  /\ tmpfiles' = tmpfiles + 1
                  /\ req' = [req EXCEPT ![r] =
                        [@ EXCEPT !.pc = "done", !.failedAt = "write",
                                  !.trace = tr1 \o <<"overlay", "to_file">>,
                                  !.file = NamedTemporaryFile(tmpfiles + 1, suffix),
                                  !.resp = HTTPErrorResponse(ClipExcept(
                                      Raised("DriverError", <<"<write error>">>)))]]
                  /\ running' = 0
             [] OTHER ->
                  /\ tmpfiles < MaxTmp
                  /\ tmpfiles' = tmpfiles + 1
                  /\ req' = [req EXCEPT ![r] =
                                [@ EXCEPT !.pc = "done", !.aoi = aoi, !.result = clipped,
                                          !.trace = tr1 \o <<"overlay", "to_file">>,
                                          !.file = file,
                                          !.resp = ClipSuccess(q.dataset, q.format,
                                                               clipped, file.path)]]
                  /\ running' = 0
    /\ clipReturned' = [clipReturned EXCEPT ![req[r].dataset] =
                            @ \/ fault \notin {"reproject", "overlay", "write"}]
    /\ UNCHANGED <<fs, dataset_cache, storageReads, nLoaded>>

EngineFaults == {"none", "reproject", "overlay", "write"}

----------------------------------------------------------------------------
(* GET /datasets/{dataset}/info and GET / *)

\* clip_service.py 88-97: the dictionary get_dataset_info returns.  Its
\* geometry_type is read from sample_gdf.geometry.iloc[0], which raises
\* IndexError on a sample without rows.
DatasetInfo(dataset, sample_gdf) ==
    IF sample_gdf.features = << >>
    THEN [raised |-> TRUE, body |-> << >>,
          exc |-> Raised("IndexError", <<"single positional indexer is out-of-bounds">>)]
    ELSE [raised |-> FALSE, exc |-> NoExc,
          body |-> <<dataset, get_data_path(DatasetValue(dataset)), sample_gdf.crs,
                     Len(sample_gdf.features), TRUE, "local">>]

\* Variant: the rows argument is left out, the whole file is read.
SampleRowsAll(gdf) == gdf

\* rows=5: at most the first five features
SampleRows(gdf) ==
    [gdf EXCEPT !.features = SubSeq(@, 1, IF Len(@) < 5 THEN Len(@) ELSE 5)]

\* main.py 114-122: the request arrives and the handler tests the file's
\* existence.  Its 404 reaches the client (there is no try block).  The handler
\* has no await: it keeps the event loop until it has answered, while the file
\* system goes on changing.
GetDatasetInfo(r, dataset) ==
    /\ req[r].pc = "idle" /\ running = 0
    /\ LET q == [NoRequest EXCEPT !.kind = "info", !.dataset = dataset,
                                  !.trace = <<"is_dataset_available">>] IN
       IF ~is_dataset_available(fs, DatasetValue(dataset))
       THEN /\ req' = [req EXCEPT ![r] =
                          [q EXCEPT !.pc = "done", !.failedAt = "available",
                                    !.resp = HTTPErrorResponse(HTTPException(404,
                                        <<"Dataset ", dataset, " not available locally">>))]]
            /\ running' = 0
       ELSE /\ storageReads[dataset] < MaxReads
            /\ req' = [req EXCEPT ![r] = [q EXCEPT !.pc = "sample"]]
            /\ running' = r
    /\ UNCHANGED <<fs, dataset_cache, storageReads, nLoaded, clipReturned, tmpfiles>>

\* main.py 123, clip_service.py 76-97: the sample read, on the file as it is
\* by now, and the answer.  Any exception is FastAPI's 500.
GetDatasetInfoSample(r) ==
    /\ req[r].kind = "info" /\ req[r].pc = "sample" /\ CanRun(r)
    /\ LET dataset == req[r].dataset
           sample  == read_file(fs, dataset, 0)
           info    == DatasetInfo(dataset, SampleRows(sample.data))
           q       == [req[r] EXCEPT !.pc = "done", !.trace = Append(@, "read_file")]
       IN  /\ storageReads' = [storageReads EXCEPT ![dataset] = @ + 1]
           /\ req' = [req EXCEPT ![r] =
                  IF sample.raised
                  THEN [q EXCEPT !.failedAt = "sample",
                                 !.resp = ErrorResponse(500, <<"Internal Server Error">>)]
                  ELSE IF info.raised
                  THEN [q EXCEPT !.failedAt = "info",
                                 !.resp = ErrorResponse(500, <<"Internal Server Error">>)]
                  ELSE [q EXCEPT !.resp = [NoResp EXCEPT !.status = 200,
                                                         !.body = info.body]]]
           /\ running' = 0
    /\ UNCHANGED <<fs, dataset_cache, nLoaded, clipReturned, tmpfiles>>

\* HealthResponse(status, datasets_available)
HealthResponse(datasets_status) ==
    [NoResp EXCEPT !.status = 200,
                   !.body = <<IF \E d \in DatasetType : datasets_status[d]
                              THEN "healthy" ELSE "no_datasets",
                              datasets_status>>]

\* main.py 40-44: the request arrives and the handler asks for the first
\* dataset.  It has no await and keeps the event loop until it has answered.
HealthCheck(r) ==
    /\ req[r].pc = "idle" /\ running = 0
    /\ req' = [req EXCEPT ![r] =
                  [NoRequest EXCEPT !.kind = "health", !.pc = "status",
                      !.datasets_status["glim"] =
                          is_dataset_available(fs, DatasetValue("glim"))]]
    /\ running' = r
    /\ UNCHANGED <<fs, dataset_cache, storageReads, nLoaded, clipReturned, tmpfiles>>

\* main.py 45-53: the second dataset, on the file system as it is by now, and
\* the answer.
HealthCheckGlhymps(r) ==
    /\ req[r].kind = "health" /\ req[r].pc = "status" /\ CanRun(r)
    /\ LET datasets_status ==
               [req[r].datasets_status EXCEPT
                   !["glhymps"] = is_dataset_available(fs, DatasetValue("glhymps"))]
       IN  req' = [req EXCEPT ![r] =
                      [@ EXCEPT !.pc = "done", !.datasets_status = datasets_status,
                                !.resp = HealthResponse(datasets_status)]]
    /\ running' = 0
    /\ UNCHANGED <<fs, dataset_cache, storageReads, nLoaded, clipReturned, tmpfiles>>

\* The response has been delivered; the slot is free for the next request.
Release(r) ==
    /\ req[r].pc = "done"
    /\ req' = [req EXCEPT ![r] = NoRequest]
    /\ UNCHANGED <<fs, dataset_cache, running, storageReads, nLoaded, clipReturned, tmpfiles>>

----------------------------------------------------------------------------
(* Specification *)

\* The handlers of the application, for requests drawn from datasets D, output
\* formats F and payloads P, and a file system in which the files of the
\* datasets FD take the states FS.  Every handler can be served in every slot,
\* so that any of them runs while another is suspended at its await, and the
\* files change at any time, between two steps of a handler too.
Handlers(D, F, P, FD, FS) ==
    \/ \E d \in FD, s \in FS : FsChange(d, s)
    \/ \E r \in Slots, d \in D, f \in F, p \in P : ClipRequest(r, d, f, p)
    \/ \E r \in Slots : ClipCheckAvailable(r)
    \/ \E r \in Slots : ClipValidate(r)
    \/ \E r \in Slots : ClipCacheLookup(r)
    \/ \E r \in Slots : ClipLoad(r)
    \/ \E r \in Slots, fault \in EngineFaults : ClipOverlay(r, fault)
    \/ \E r \in Slots, d \in D : GetDatasetInfo(r, d)
    \/ \E r \in Slots : GetDatasetInfoSample(r)
    \/ \E r \in Slots : HealthCheck(r)
    \/ \E r \in Slots : HealthCheckGlhymps(r)
    \/ \E r \in Slots : Release(r)

\* The files of FD start in a state of FS, the other datasets have no file.
InitWith(FD, FS) ==
    /\ Init
    /\ \A d \in DatasetType : IF d \in FD THEN fs[d] \in FS ELSE fs[d] = "missing"

\* Every payload, on one dataset and one output format.
SpecDatasets == {"glim"}
SpecFormats == {"geojson"}
SpecFiles == {"missing", "corrupt", "ok"}

Next == Handlers(SpecDatasets, SpecFormats, Payloads, SpecDatasets, SpecFiles)

Spec == InitWith(SpecDatasets, SpecFiles) /\ [][Next]_vars

\* Every output format, on AOIs that overlap the dataset and that do not.
FormatPayloads == {P_valid_wgs84, P_valid_far}
FormatFiles == {"missing", "ok"}

NextFormats == Handlers(SpecDatasets, OutputFormat, FormatPayloads, SpecDatasets, FormatFiles)

SpecFormat == InitWith(SpecDatasets, FormatFiles) /\ [][NextFormats]_vars

\* The overlay: one dataset and one output format, AOIs that overlap the
\* dataset's features, touch them, lie apart from them, have several
\* features, are a point.
OverlayPayloads == {P_valid_wgs84, P_valid_far, P_valid_touching, P_two_boxes, P_point}

NextOverlay == Handlers(SpecDatasets, SpecFormats, OverlayPayloads, SpecDatasets, FormatFiles)

SpecOverlay == InitWith(SpecDatasets, FormatFiles) /\ [][NextOverlay]_vars

\* Requests for one dataset whose CRS differs from the AOIs', on a payload of
\* each outcome of the validator.
ConcDatasets == {"glhymps"}
ConcPayloads == {P_valid_nocrs, P_valid_eqarea, P_no_features}
ConcFormats == {"geojson"}

NextConc == Handlers(ConcDatasets, ConcFormats, ConcPayloads, ConcDatasets, SpecFiles)

SpecConc == InitWith(ConcDatasets, SpecFiles) /\ [][NextConc]_vars

\* Every state of the backing file, the one without features included.
InfoPayloads == {P_valid_nocrs}

NextInfo == Handlers(ConcDatasets, ConcFormats, InfoPayloads, ConcDatasets, FileStates)

SpecInfo == InitWith(ConcDatasets, FileStates) /\ [][NextInfo]_vars

\* Requests for one dataset while the files of both datasets come and go.
NextAvail == Handlers(SpecDatasets, SpecFormats, InfoPayloads, DatasetType, FormatFiles)

SpecAvail == InitWith(DatasetType, FormatFiles) /\ [][NextAvail]_vars

----------------------------------------------------------------------------
(* Properties *)

Has(tr, ev) == \E i \in 1..Len(tr) : tr[i] = ev

ClipDone(r) == req[r].kind = "clip" /\ req[r].pc = "done"

\* the request's handler got past the availability gate and read the upload
PastGate(r) == Has(req[r].trace, "read")

ClipStages == {"load", "reproject", "overlay", "write"}

EngineMessage(stage) ==
    CASE stage = "load"      -> "<read error>"
      [] stage = "reproject" -> "<reprojection error>"
      [] stage = "overlay"   -> "<overlay error>"
      [] stage = "write"     -> "<write error>"

\* C1: a clip request whose dataset is unavailable when the handler runs is
\* answered with status 404, whatever the payload and output format.
C1_Unavailable404 ==
    \A r \in Slots :
        ClipDone(r) /\ req[r].failedAt = "available" => req[r].resp.status = 404

\* C2: a clip request for an available dataset whose upload is longer than
\* MAX_FILE_SIZE bytes is answered with status 413.
C2_Oversize413 ==
    \A r \in Slots :
        ClipDone(r) /\ PastGate(r) /\ req[r].contents.len > MAX_FILE_SIZE
            => req[r].resp.status = 413

\* C3: a clip request for an available dataset whose within-size upload the
\* AOI validator rejects is answered with status 400.
C3_Malformed400 ==
    \A r \in Slots :
        ClipDone(r) /\ PastGate(r) /\ req[r].contents.len <= MAX_FILE_SIZE
                    /\ req[r].contents \in InvalidPayloads
            => req[r].resp.status = 400

\* C4: a failure inside the clip step (load, reprojection, overlay, write) is
\* answered with status 500 and detail "Clipping failed: <underlying message>";
\* a reprojection failure and an overlay failure do not differ in status or
\* in the category their detail starts with.
C4_ClipFailure500 ==
    /\ \A r \in Slots :
          ClipDone(r) /\ req[r].failedAt \in ClipStages
              => /\ req[r].resp.status = 500
                 /\ req[r].resp.detail =
                        <<"Clipping failed: ", EngineMessage(req[r].failedAt)>>
    /\ \A r1, r2 \in Slots :
          /\ ClipDone(r1) /\ req[r1].failedAt = "reproject"
          /\ ClipDone(r2) /\ req[r2].failedAt = "overlay"
          => /\ req[r1].resp.status = req[r2].resp.status
             /\ Head(req[r1].resp.detail) = Head(req[r2].resp.detail)

C4_Witness ==
    /\ ClipDone(1) /\ req[1].failedAt = "reproject"
    /\ ClipDone(2) /\ req[2].failedAt = "overlay"

CacheEvents == {"clip_data", "cache_miss", "cache_hit", "read_file", "cache_insert"}

\* C5: a clip request whose payload fails validation never calls clip_data:
\* it starts no dataset load and neither reads nor writes the cache, and it
\* ends at the validator.
C5_InvalidNeverReachesCache ==
    \A r \in Slots :
        req[r].kind = "clip" /\ req[r].contents \in InvalidPayloads
            => /\ \A ev \in CacheEvents : ~Has(req[r].trace, ev)
               /\ req[r].full_data = NoEntry
               /\ req[r].pc \in {"start", "read", "done"}
               /\ ClipDone(r) /\ PastGate(r) => req[r].failedAt = "validation"

C5_Witness ==
    \E r \in Slots :
        /\ ClipDone(r) /\ req[r].contents \in InvalidPayloads
        /\ req[r].failedAt = "validation"
        /\ dataset_cache[req[r].dataset] = NoEntry

\* C6: a clip request whose upload exceeds MAX_FILE_SIZE is rejected before
\* the validator runs: the payload is neither decoded nor parsed.
C6_OversizeNeverValidated ==
    \A r \in Slots :
        req[r].kind = "clip" /\ req[r].contents.len > MAX_FILE_SIZE
            => /\ req[r].steps = << >>
               /\ ~Has(req[r].trace, "validate_geojson_file")
               /\ req[r].pc \in {"start", "read", "done"}
               /\ ClipDone(r) /\ PastGate(r)
                     => req[r].failedAt = "size" /\ req[r].resp.status >= 400

C6_Witness ==
    \E r \in Slots :
        /\ ClipDone(r) /\ req[r].contents.len > MAX_FILE_SIZE
        /\ req[r].failedAt = "size" /\ req[r].steps = << >>

\* C7 as stated: the first clip_data call for a dataset that returns normally
\* is the one that loads the dataset and inserts it in the cache.
C7_FirstSuccessLoads ==
    [][\A r \in Slots :
          /\ req[r].pc = "overlay" /\ req'[r].pc = "done"
          /\ req'[r].resp.status = 200
          /\ ~clipReturned[req[r].dataset]
          => Has(req'[r].trace, "cache_insert")]_vars

\* C7 (amended): the first clip_data call for a dataset whose load succeeds
\* inserts the loaded collection in the cache, whether or not the rest of
\* that call succeeds; every later clip_data call for that name performs no
\* load and uses that very collection.
C7_LoadOnceThenShared ==
    /\ \A d \in DatasetType : (dataset_cache[d] # NoEntry) <=> (nLoaded[d] >= 1)
    /\ \A r \in Slots :
          req[r].kind = "clip" /\ req[r].pc \in {"overlay", "done"}
                               /\ Has(req[r].trace, "clip_data")
                               /\ req[r].failedAt # "load"
              => /\ req[r].full_data = dataset_cache[req[r].dataset]
                 /\ req[r].full_data.id = 1
                 /\ Has(req[r].trace, "cache_hit") <=> ~Has(req[r].trace, "read_file")
                 /\ Has(req[r].trace, "cache_insert") <=> Has(req[r].trace, "read_file")

C7_Witness ==
    \E r1, r2 \in Slots :
        /\ ClipDone(r1) /\ ClipDone(r2) /\ req[r1].dataset = req[r2].dataset
        /\ req[r1].failedAt = "overlay" /\ Has(req[r1].trace, "cache_insert")
        /\ req[r2].resp.status = 200 /\ Has(req[r2].trace, "cache_hit")
        /\ req[r2].full_data = req[r1].full_data

\* C8 as stated: over any sequence of clip and dataset-info requests the
\* storage of each dataset is read at most once.
C8_StorageReadAtMostOnce ==
    \A d \in DatasetType : storageReads[d] <= 1

\* C8 (amended): the storage of each dataset is read by at most one full load
\* that succeeds; a full load is attempted only while the dataset is not
\* cached, and once it is cached the only reads of its storage are the sample
\* reads of dataset-info requests.
C8_FullLoadAtMostOnce ==
    [][\A d \in DatasetType :
          /\ nLoaded'[d] # nLoaded[d]
                => nLoaded[d] = 0 /\ nLoaded'[d] = 1 /\ dataset_cache[d] = NoEntry
          /\ storageReads'[d] # storageReads[d] /\ dataset_cache[d] # NoEntry
                => \E r \in Slots : /\ req[r].kind = "info" /\ req[r].pc = "sample"
                                    /\ req'[r].pc = "done"
                                    /\ req[r].dataset = d]_vars

C8_Witness ==
    \E r \in Slots, d \in DatasetType :
        /\ req[r].kind = "info" /\ req[r].dataset = d /\ req[r].resp.status = 200
        /\ dataset_cache[d] # NoEntry /\ nLoaded[d] = 1
        /\ storageReads[d] = 2

\* C9: when the dataset load inside clip_data raises, the cache gains no
\* entry for that dataset (so the next clip_data call for it attempts the
\* load again, and succeeds once the file is readable).
C9_FailedLoadNotCached ==
    [][\A r \in Slots :
          req[r].pc = "loading" /\ req'[r].pc = "done"
              => /\ req'[r].failedAt = "load"
                 /\ dataset_cache' = dataset_cache
                 /\ dataset_cache'[req[r].dataset] = NoEntry
                 /\ nLoaded' = nLoaded]_vars

C9_Witness ==
    \E r1, r2 \in Slots :
        /\ ClipDone(r1) /\ req[r1].failedAt = "load"
        /\ ClipDone(r2) /\ req[r2].dataset = req[r1].dataset
        /\ req[r2].resp.status = 200 /\ Has(req[r2].trace, "cache_insert")

\* C10 as stated: among clip requests in flight together for the same
\* not-yet-cached dataset, at most one load of that dataset is performed.
C10_AtMostOneLoad ==
    \A r1, r2 \in Slots :
        /\ r1 # r2
        /\ req[r1].kind = "clip" /\ req[r2].kind = "clip"
        /\ req[r1].dataset = req[r2].dataset
        /\ req[r1].overlapped /\ req[r2].overlapped
        => ~(Has(req[r1].trace, "read_file") /\ Has(req[r2].trace, "read_file"))

\* C10 (amended): among clip requests in flight together for the same
\* not-yet-cached dataset, at most one load is in progress at any time and at
\* most one load succeeds; the requests that reach the overlay all clip
\* against the same loaded collection.  (A load that fails is retried by the
\* next of those requests.)
C10_SingleFlight ==
    /\ \A r \in Slots :
          req[r].pc \in {"clip_data", "loading", "overlay", "sample", "status"}
              <=> running = r
    /\ \A r \in Slots :
          req[r].pc = "loading" => dataset_cache[req[r].dataset] = NoEntry
    /\ \A r1, r2 \in Slots :
          /\ r1 # r2
          /\ req[r1].kind = "clip" /\ req[r2].kind = "clip"
          /\ req[r1].dataset = req[r2].dataset
          => /\ ~(req[r1].pc = "loading" /\ req[r2].pc = "loading")
             /\ ~(Has(req[r1].trace, "cache_insert") /\ Has(req[r2].trace, "cache_insert"))
             /\ req[r1].full_data # NoEntry /\ req[r2].full_data # NoEntry
                   => req[r1].full_data = req[r2].full_data

C10_Witness ==
    \E r1, r2 \in Slots :
        /\ r1 # r2 /\ ClipDone(r1) /\ ClipDone(r2)
        /\ req[r1].dataset = req[r2].dataset
        /\ req[r1].overlapped /\ req[r2].overlapped
        /\ req[r1].resp.status = 200 /\ Has(req[r1].trace, "cache_insert")
        /\ req[r2].resp.status = 200 /\ Has(req[r2].trace, "cache_hit")
        /\ req[r1].full_data = req[r2].full_data

ClipError(r) == ClipDone(r) /\ req[r].resp.status >= 400

\* C11 as stated: a clip request that ends in an error response has left the
\* cache as it was when the request started, whichever step failed: it has
\* inserted nothing.
C11_ErrorLeavesCacheAsBefore ==
    \A r \in Slots : ClipError(r) => ~Has(req[r].trace, "cache_insert")

\* C11 (amended): a clip request that fails at the availability gate, the size
\* check, validation or the load changes nothing in the cache; one that fails
\* in reprojection, overlay or serialization changes no entry that existed
\* and, if it loaded the dataset itself, leaves that newly loaded collection
\* in the cache.  No step of a request changes the cache but its successful
\* load, which adds the entry of its dataset.
C11_ErrorCacheEffect ==
    [][\A r \in Slots :
          /\ req[r].kind = "clip" /\ req'[r].kind = "clip" /\ req'[r].pc # req[r].pc
                => \/ dataset_cache' = dataset_cache
                   \/ /\ req[r].pc = "loading" /\ req'[r].pc = "overlay"
                      /\ dataset_cache[req[r].dataset] = NoEntry
                      /\ dataset_cache' = [dataset_cache EXCEPT
                                              ![req[r].dataset] = req'[r].full_data]
          /\ req'[r].kind = "clip" /\ req'[r].pc = "done" /\ req'[r].resp.status >= 400
                => /\ req'[r].failedAt \in {"available", "size", "validation", "load"}
                         => ~Has(req'[r].trace, "cache_insert")
                   /\ Has(req'[r].trace, "cache_insert")
                         => /\ req'[r].failedAt \in {"reproject", "overlay", "write"}
                            /\ dataset_cache'[req'[r].dataset] = req'[r].full_data
                            /\ req'[r].full_data # NoEntry
                   /\ \A d \in DatasetType :
                         req'[r].cache0[d] # NoEntry
                            => dataset_cache'[d] = req'[r].cache0[d]]_vars

C11_Witness ==
    \E r \in Slots :
        /\ ClipError(r) /\ req[r].failedAt = "overlay"
        /\ req[r].cache0[req[r].dataset] = NoEntry
        /\ dataset_cache[req[r].dataset] # NoEntry

\* C12: a clip request for a dataset whose file does not exist when the
\* handler runs ends at the availability gate and changes nothing: the cache
\* is unchanged, no load is attempted, the upload is not validated and no
\* temporary file is created.
C12_UnavailableChangesNothing ==
    [][\A r \in Slots :
          /\ req[r].kind = "clip" /\ req[r].pc = "start" /\ req'[r].pc # "start"
          /\ fs[req[r].dataset] = "missing"
          => /\ req'[r].pc = "done" /\ req'[r].failedAt = "available"
             /\ req'[r].trace = <<"is_dataset_available">>
             /\ req'[r].steps = << >>
             /\ req'[r].file = NoFile /\ req'[r].resp.path = << >>
             /\ dataset_cache' = dataset_cache
             /\ storageReads' = storageReads /\ nLoaded' = nLoaded
             /\ tmpfiles' = tmpfiles]_vars

C12_Witness ==
    \E r \in Slots :
        /\ ClipDone(r) /\ req[r].failedAt = "available"
        /\ fs[req[r].dataset] = "missing"
        /\ req[r].contents \in ValidPayloads
        /\ dataset_cache = req[r].cache0 /\ tmpfiles = 0

\* C13: the cache holds entries only under the names of the fixed dataset set,
\* one per name, and an entry once inserted is never removed, replaced or
\* modified by any later operation (clip, info, health, file changes).
C13_CacheAppendOnly ==
    [][/\ DOMAIN dataset_cache' = DatasetType
       /\ \A d \in DatasetType :
             dataset_cache[d] # NoEntry => dataset_cache'[d] = dataset_cache[d]]_vars

C13_Witness ==
    \E r \in Slots :
        /\ ClipDone(r) /\ Has(req[r].trace, "cache_hit")
        /\ req[r].cache0[req[r].dataset] # NoEntry
        /\ dataset_cache[req[r].dataset] = req[r].cache0[req[r].dataset]
        /\ fs[req[r].dataset] # "ok"

ClipOk(r) == ClipDone(r) /\ req[r].resp.status = 200

\* C14: in a successful clip the dataset is used as stored, never reprojected;
\* the AOI is reprojected to the dataset's CRS exactly when its CRS differs;
\* the overlay runs with both inputs in the dataset's CRS and the result
\* carries the dataset's CRS.
C14_AOIReprojectedToDataset ==
    \A r \in Slots :
        ClipOk(r)
            => LET v  == validate_geojson_file(req[r].contents).gdf
                   ds == DatasetFile(req[r].dataset)
               IN  /\ req[r].full_data.crs = ds.crs
                   /\ req[r].full_data = dataset_cache[req[r].dataset]
                   /\ req[r].full_data.features \in {ds.features, << >>}
                   /\ Has(req[r].trace, "to_crs") <=> v.crs # ds.crs
                   /\ req[r].aoi = IF v.crs # ds.crs THEN to_crs(v, ds.crs) ELSE v
                   /\ req[r].aoi.crs = ds.crs
                   /\ req[r].result = overlay(req[r].full_data, req[r].aoi)
                   /\ req[r].result.crs = ds.crs

C14_Witness ==
    \E r \in Slots :
        /\ ClipOk(r) /\ Has(req[r].trace, "to_crs")
        /\ req[r].contents.crs = EqualArea /\ req[r].dataset = "glim"
        /\ req[r].aoi.crs = EckertIV
        /\ req[r].result.features # << >>

\* C15: an AOI that passed validation carries WGS84 (EPSG:4326) if the payload
\* declared no CRS and the declared CRS otherwise; a payload is never rejected
\* for lacking a CRS (it is rejected only if it would be with WGS84 declared).
C15_MissingCRSDefaultsToWGS84 ==
    \A r \in Slots :
        /\ req[r].kind = "clip" /\ req[r].pc \in {"clip_data", "loading", "overlay"}
              => /\ req[r].aoi.crs = IF req[r].contents.crs = NoCRS
                                     THEN "EPSG:4326" ELSE req[r].contents.crs
                 /\ req[r].aoi.features = req[r].contents.features
        /\ ClipDone(r) /\ req[r].failedAt = "validation"
              => validate_geojson_file([req[r].contents EXCEPT !.crs = WGS84]).raised

C15_Witness ==
    \E r \in Slots :
        /\ req[r].kind = "clip" /\ req[r].pc = "clip_data"
        /\ req[r].contents.crs = NoCRS
        /\ req[r].aoi.crs = "EPSG:4326"

\* The validated AOI of request r, expressed in the dataset's CRS.
AOIInDatasetCRS(r) ==
    to_crs(validate_geojson_file(req[r].contents).gdf, DatasetFile(req[r].dataset).crs)

\* The pairs (dataset feature, AOI feature) of request r whose geometries
\* have a point in common.
IntersectingPairs(r) ==
    LET D == req[r].full_data.features
        A == AOIInDatasetCRS(r).features
    IN  {p \in (1..Len(D)) \X (1..Len(A)) : Covered(D[p[1]]) \cap Covered(A[p[2]]) # {}}

\* The pairs (dataset feature, AOI feature) of request r whose geometries
\* have a cell, that is some area, in common.
OverlappingPairs(r) ==
    LET D == req[r].full_data.features
        A == AOIInDatasetCRS(r).features
    IN  {p \in (1..Len(D)) \X (1..Len(A)) : \E c \in D[p[1]].geom : c \in A[p[2]].geom}

ColumnValues(attrs) == [i \in 1..Len(attrs) |-> attrs[i].value]
BaseNames(attrs) == [i \in 1..Len(attrs) |-> Head(attrs[i].name)]

C18_FeatureCountHeader ==
    \A r \in Slots :
        ClipOk(r)
            => /\ req[r].resp.feature_count = Len(req[r].result.features)
               /\ req[r].resp.feature_count = req[r].file.written
               /\ req[r].resp.path = req[r].file.path
               /\ req[r].file.path # << >>

C18_Witness ==
    \E r \in Slots :
        /\ ClipOk(r) /\ req[r].format = "gpkg"
        /\ req[r].resp.feature_count = 2 /\ req[r].file.written = 2

\* The file extension of a temporary-file suffix: the suffix without its dot.
SuffixExtension(suffix) ==
    CASE suffix = ".geojson" -> "geojson"
      [] suffix = ".shp"     -> "shp"
      [] suffix = ".gpkg"    -> "gpkg"

\* C19: the suggested filename of a successful clip response is
\* '{datasetName}_clipped.{formatExtension}', formatExtension being the
\* extension the serializer gave the file it wrote (geojson, shp, gpkg).
C19_FilenameHasContainerExtension ==
    \A r \in Slots :
        ClipOk(r)
            => req[r].resp.filename =
                  <<req[r].dataset, "_clipped.", SuffixExtension(req[r].file.path[3])>>

\* The requests whose handler has created a temporary file and whose response
\* has not completed yet.
HoldsTempFile(r) == req[r].kind = "clip" /\ req[r].file # NoFile

\* C20: the temporary files left in storage are at most those of the requests
\* still being answered: once a request's response has completed (or the
\* request has failed) its file is gone, so leftovers do not accumulate.
C20_TempFilesRemoved ==
    tmpfiles <= Cardinality({r \in Slots : HoldsTempFile(r)})

\* C21: availability is read from the file system at every call, never from
\* memory: the health handler (for each dataset, at the moment it asks for
\* that dataset), the clip gate and the info gate each report a dataset
\* available exactly when its file exists at that moment, whether or not the
\* dataset is cached; a clip request for a cached dataset whose file is gone
\* is refused.
C21_AvailabilityFromFileSystem ==
    [][\A r \in Slots :
          /\ req[r].pc = "idle" /\ req'[r].kind = "health"
                => req'[r].datasets_status["glim"] = (fs["glim"] # "missing")
          /\ req[r].kind = "health" /\ req[r].pc # "done" /\ req'[r].pc = "done"
                => /\ req'[r].resp.body[2]["glhymps"] = (fs["glhymps"] # "missing")
                   /\ req'[r].resp.body[2]["glim"] = req[r].datasets_status["glim"]
                   /\ req'[r].resp.status = 200
          /\ req[r].kind = "clip" /\ req[r].pc = "start" /\ req'[r].pc # "start"
                => /\ req'[r].failedAt = "available" <=> fs[req[r].dataset] = "missing"
                   /\ fs[req[r].dataset] = "missing"
                         => req'[r].pc = "done" /\ req'[r].resp.status >= 400
                   /\ fs[req[r].dataset] # "missing" => req'[r].pc = "read"
          /\ req[r].pc = "idle" /\ req'[r].kind = "info"
                => /\ req'[r].failedAt = "available" <=> fs[req'[r].dataset] = "missing"
                   /\ fs[req'[r].dataset] = "missing"
                         => req'[r].pc = "done" /\ req'[r].resp.status = 404
                   /\ fs[req'[r].dataset] # "missing" => req'[r].pc = "sample"]_vars

C21_Witness ==
    \E r \in Slots :
        /\ ClipDone(r) /\ req[r].failedAt = "available"
        /\ req[r].cache0[req[r].dataset] # NoEntry
        /\ dataset_cache[req[r].dataset] # NoEntry

----------------------------------------------------------------------------
(* geoglim/client.py: GeoGlimClient.clip_dataset, from the response on *)

\* client.py 126-158: what the call can end with for a given response.  A 404
\* raises DatasetNotFoundError, every other status from 400 on ClippingError;
\* otherwise the body is written to a file and read back, which returns the
\* frame or raises, and `except Exception` turns any raise into ClippingError.
ClientClipOutcomes(resp) ==
    IF resp.status = 404 THEN {"DatasetNotFoundError"}
    ELSE IF resp.status = 413 THEN {"ClippingError"}
    ELSE IF resp.status >= 400 THEN {"ClippingError"}
    ELSE {"GeoDataFrame", "ClippingError"}

\* C22: end to end, the client's clip_dataset raises DatasetNotFoundError (not
\* ClippingError) when the dataset is not available on the server, and
\* ClippingError for every other server-side failure of the request.
C22_ClientExceptionMapping ==
    \A r \in Slots :
        ClipError(r)
            => ClientClipOutcomes(req[r].resp) =
                  IF req[r].failedAt = "available"
                  THEN {"DatasetNotFoundError"} ELSE {"ClippingError"}

----------------------------------------------------------------------------
(* The validator's checks, seen in the answer of a clip request *)

\* A clip request whose upload reached validate_geojson_file and was answered.
ValidatorRan(r) ==
    ClipDone(r) /\ PastGate(r) /\ ~TooLarge(req[r].contents)

Says(r, text) == Has(req[r].resp.detail, text)

\* C23 as stated: every upload that json.loads does not parse, undecodable
\* bytes included, fails with the message 'Invalid JSON format'.
C23_UnparsableSaysInvalidJSON ==
    \A r \in Slots :
        ValidatorRan(r) /\ (~req[r].contents.utf8
                                \/ req[r].contents.json \in {"invalid", "recursion", "int_limit"})
            => Says(r, "Invalid JSON format: ")

\* C23 (amended): the validator applies its checks in a fixed order and
\* reports the first that fails.  Bytes that are not UTF-8 fail at decoding
\* with 'Invalid GeoJSON file'; text that is not JSON fails with 'Invalid JSON
\* format'; text on which the parser fails for another reason (nesting beyond
\* its recursion limit, an integer literal longer than the conversion limit)
\* fails with 'Invalid GeoJSON file' before the checks of the parsed value,
\* whatever the text holds; a value that is not an object or has no 'type' fails before any
\* conversion to features; a payload without features fails before geometry
\* validity is checked; a payload with an invalid geometry fails; an AOI is
\* returned only if every check passed, so it is non-empty and all valid.
C23_ValidatorOrder ==
    \A r \in Slots :
        /\ ValidatorRan(r)
              => LET c  == req[r].contents
                     st == req[r].steps
                 IN  /\ ~c.utf8
                           => /\ req[r].failedAt = "validation" /\ st = <<"decode">>
                              /\ Says(r, "Invalid GeoJSON file: ")
                              /\ ~Says(r, "Invalid JSON format: ")
                     /\ c.utf8 /\ c.json = "invalid"
                           => /\ req[r].failedAt = "validation"
                              /\ st = <<"decode", "json.loads">>
                              /\ Says(r, "Invalid JSON format: ")
                     /\ c.utf8 /\ c.json = "recursion"
                           => /\ req[r].failedAt = "validation"
                              /\ st = <<"decode", "json.loads">>
                              /\ Says(r, "Invalid GeoJSON file: ")
                              /\ Says(r, "maximum recursion depth exceeded")
                              /\ ~Says(r, "Invalid JSON format: ")
                     /\ c.utf8 /\ c.json = "int_limit"
                           => /\ req[r].failedAt = "validation"
                              /\ st = <<"decode", "json.loads">>
                              /\ Says(r, "Invalid GeoJSON file: ")
                              /\ Says(r, "Exceeds the limit (4300 digits) for integer string conversion")
                              /\ ~Says(r, "Invalid JSON format: ")
                     /\ c.utf8 /\ c.json = "array"
                           => /\ req[r].failedAt = "validation"
                              /\ Says(r, "GeoJSON must be a JSON object")
                              /\ ~Has(st, "read_file")
                     /\ c.utf8 /\ c.json = "object" /\ ~c.hasType
                           => /\ req[r].failedAt = "validation"
                              /\ Says(r, "GeoJSON must have a 'type' field")
                              /\ ~Has(st, "read_file")
                     /\ c.utf8 /\ c.json = "object" /\ c.hasType /\ c.readable
                               /\ c.features = << >>
                           => /\ req[r].failedAt = "validation"
                              /\ Says(r, "GeoJSON contains no features")
                              /\ Has(st, "read_file") /\ ~Has(st, "is_valid")
                     /\ c.utf8 /\ c.json = "object" /\ c.hasType /\ c.readable
                               /\ c.features # << >>
                               /\ (\E i \in 1..Len(c.features) : ~c.features[i].valid)
                           => /\ req[r].failedAt = "validation"
                              /\ Says(r, "GeoJSON contains invalid geometries")
                              /\ Has(st, "empty")
                     /\ req[r].failedAt = "validation"
                           => req[r].resp.status >= 400 /\ req[r].aoi = NoGdf
        /\ req[r].kind = "clip" /\ req[r].pc \in {"clip_data", "loading", "overlay"}
              => /\ req[r].aoi.features # << >>
                 /\ \A i \in 1..Len(req[r].aoi.features) : req[r].aoi.features[i].valid
                 /\ req[r].steps = <<"decode", "json.loads", "read_file", "empty", "is_valid">>

C23_Witness ==
    \E r \in Slots :
        /\ ValidatorRan(r) /\ req[r].contents = P_not_utf8
        /\ req[r].failedAt = "validation"
        /\ Says(r, "Invalid GeoJSON file: ")

----------------------------------------------------------------------------
(* backend/utils/validation.py: validate_area_size, which no handler calls *)


\* gdf.crs.is_geographic
is_geographic(crs) == crs = WGS84

\* The area of one cell in a projected reference system, in square metres.
CellAreaM2 == 2000000

\* gdf.geometry.area.sum()
RECURSIVE AreaSum(_)
AreaSum(features) ==
    IF features = << >> THEN 0
    ELSE Cardinality(Head(features).geom) * CellAreaM2 + AreaSum(Tail(features))

AreaTooLarge == HTTPException(413, <<"Area too large: ", "<area_km2>", " km2. Max allowed: ",
                                     "<max_area>", " km2">>)

\* except Exception as e: raise HTTPException(400, f"Area validation failed: {str(e)}")
\* The HTTPException raised in the try block is caught here as well.
AreaExcept(e) == HTTPException(400, <<"Area validation failed: ">> \o Str(e))

\* validate_area_size(gdf, max_area): returns True or raises.
validate_area_size(gdf, max_area) ==
    IF gdf.crs = NoCRS
    THEN [raised |-> TRUE, value |-> FALSE,
          exc |-> AreaExcept(Raised("AttributeError",
                     <<"'NoneType' object has no attribute 'is_geographic'">>))]
    ELSE LET gdf_proj   == IF is_geographic(gdf.crs) THEN to_crs(gdf, WebMercator) ELSE gdf
             total_area == AreaSum(gdf_proj.features)
             area_km2   == total_area \div 1000000
         IN  IF area_km2 > max_area
             THEN [raised |-> TRUE, value |-> FALSE, exc |-> AreaExcept(AreaTooLarge)]
             ELSE [raised |-> FALSE, value |-> TRUE, exc |-> NoExc]

\* Frames and limits the function is called with: the validated AOIs (2 and 4
\* km2), a larger one and one without CRS; limits below, at and above them.
AreaInputs ==
    {validate_geojson_file(p).gdf : p \in ValidPayloads}
        \cup {[crs |-> EqualArea, features |-> << Box({11, 12}, "a"), Box({13}, "b") >>],
              [crs |-> NoCRS, features |-> << Box({1}, "box") >>]}

MaxAreas == {1, 2, 4, 6}

\* A call of validate_area_size(gdf, max_area); the slot keeps the arguments
\* (aoi, body) and the outcome (resp, result of the raise).
ValidateAreaSize(r, gdf, max_area) ==
    /\ req[r].pc = "idle" /\ running = 0
    /\ LET out == validate_area_size(gdf, max_area) IN
       req' = [req EXCEPT ![r] =
                  [NoRequest EXCEPT
                      !.kind = "area", !.pc = "done", !.aoi = gdf,
                      !.trace = <<"validate_area_size">>,
                      !.failedAt = IF out.raised THEN "area" ELSE "",
                      !.resp = IF out.raised
                               THEN [HTTPErrorResponse(out.exc) EXCEPT !.body = <<max_area>>]
                               ELSE [NoResp EXCEPT !.body = <<max_area, out.value>>]]]
    /\ UNCHANGED <<fs, dataset_cache, running, storageReads, nLoaded, clipReturned, tmpfiles>>

NextArea ==
    \/ \E r \in Slots, gdf \in AreaInputs, m \in MaxAreas : ValidateAreaSize(r, gdf, m)
    \/ \E r \in Slots : Release(r)

SpecArea == Init /\ [][NextArea]_vars

AreaDone(r) == req[r].kind = "area" /\ req[r].pc = "done"

AreaKm2(gdf) == AreaSum(gdf.features) \div 1000000

\* C24: validate_area_size returns True when the AOI's area in km2 is at most
\* max_area, and when the area exceeds max_area it fails with the 'Area too
\* large' error carrying HTTP status 413.
C24_AreaTooLarge413 ==
    \A r \in Slots :
        AreaDone(r) /\ req[r].aoi.crs # NoCRS
            => IF AreaKm2(req[r].aoi) <= req[r].resp.body[1]
               THEN req[r].failedAt = "" /\ req[r].resp.body[2] = TRUE
               ELSE /\ req[r].failedAt = "area"
                    /\ Has(req[r].resp.detail, "Area too large: ")
                    /\ req[r].resp.status = 413

----------------------------------------------------------------------------
(* GET /datasets/{dataset}/info as seen by its caller *)

InfoDone(r) == req[r].kind = "info" /\ req[r].pc = "done"

\* C25 as stated: the info request answers 404 when the dataset is
\* unavailable and in every other case returns the info with available = true.
C25_InfoUnlessUnavailable ==
    \A r \in Slots :
        InfoDone(r)
            => IF req[r].failedAt = "available"
               THEN req[r].resp.status = 404
               ELSE req[r].resp.status = 200 /\ req[r].resp.body[5] = TRUE

\* C25 (amended): the info request answers 404 when the dataset's file does
\* not exist at the availability check; otherwise it reads a sample of the
\* file as it is by then: when that read returns at least one feature it
\* returns info derived from at most 5 features (sample_feature_count,
\* available = true); when the read fails (the file unreadable, or removed
\* since the check) or returns no feature it answers 500.  In every case the
\* cache is neither read nor changed, no full load happens, and the answer is
\* determined by the file alone, cached or not.
C25_InfoFromSampleOnly ==
    [][\A r \in Slots :
          /\ req'[r].kind = "info" /\ req'[r].pc # req[r].pc
                => /\ dataset_cache' = dataset_cache
                   /\ nLoaded' = nLoaded /\ tmpfiles' = tmpfiles
                   /\ \A ev \in {"clip_data", "cache_miss", "cache_hit", "cache_insert"} :
                         ~Has(req'[r].trace, ev)
          /\ req[r].pc = "idle" /\ req'[r].kind = "info"
                => LET d == req'[r].dataset
                   IN  /\ storageReads' = storageReads
                       /\ fs[d] = "missing"
                             => req'[r].pc = "done" /\ req'[r].resp.status = 404
                       /\ fs[d] # "missing"
                             => req'[r].pc = "sample" /\ req'[r].resp = NoResp
          /\ req[r].kind = "info" /\ req[r].pc = "sample" /\ req'[r].pc # "sample"
                => LET d == req[r].dataset
                       n == Len(DatasetFile(d).features)
                   IN  /\ req'[r].pc = "done"
                       /\ storageReads'[d] = storageReads[d] + 1
                       /\ fs[d] \in {"missing", "corrupt", "empty"}
                             => /\ req'[r].resp.status = 500
                                /\ req'[r].resp.body = << >>
                       /\ fs[d] = "ok"
                             => /\ req'[r].resp.status = 200
                                /\ req'[r].resp.body[1] = d
                                /\ req'[r].resp.body[3] = DatasetFile(d).crs
                                /\ req'[r].resp.body[4] = (IF n < 5 THEN n ELSE 5)
                                /\ req'[r].resp.body[4] <= 5
                                /\ req'[r].resp.body[5] = TRUE]_vars

C25_Witness ==
    \E r \in Slots :
        /\ InfoDone(r) /\ req[r].resp.status = 200
        /\ req[r].dataset = "glhymps"
        /\ Len(DatasetFile("glhymps").features) > 5
        /\ req[r].resp.body[4] = 5
        /\ dataset_cache["glhymps"] # NoEntry
        /\ nLoaded["glhymps"] = 1

====
